---- MODULE Spec2Model ----
(***************************************************************************)
(* Model of streamlit_app.py: a Streamlit script that is re-run from top   *)
(* to bottom on every widget interaction.  One behaviour of the model is a *)
(* sequence of reruns; the position inside the script is pc.               *)
(*                                                                         *)
(* Numbers.  A timestamp is an integer count of ticks since 2000-01-01     *)
(* 00:00, TicksPerDay ticks per day; a calendar date is a day number.      *)
(* Temperatures are in tenths of a degree, scores in points, and every     *)
(* derived real is kept exactly as a cell [nan, num, den, rad] that stands *)
(* for (num/den)/sqrt(rad[1]/rad[2]); floating-point rounding is not       *)
(* modelled.                                                               *)
(***************************************************************************)
EXTENDS Integers, Sequences, FiniteSets, TLC

\* ------------------------------------------------------------- bounds
TicksPerDay == 2    \* resolution of a timestamp below one day
MaxSrcRows == 1     \* rows of a fetched NOAA CSV
NearRows == 1       \* the date picker offers the dates of the first NearRows rows
NoiseSeeds == 1     \* distinct noise series of the generated sample

\* ------------------------------------------------------------- arithmetic
Abs(x) == IF x < 0 THEN -x ELSE x

RECURSIVE GCD(_, _)
GCD(a, b) == IF b = 0 THEN Abs(a) ELSE GCD(Abs(b), Abs(a) % Abs(b))

LCM(a, b) == (a \div GCD(a, b)) * b

\* A rational <<n, d>> in lowest terms with d > 0.
Rat(n, d) ==
    LET g == GCD(n, d)
        s == IF d < 0 THEN -1 ELSE 1
    IN  <<s * (n \div g), s * (d \div g)>>

One == <<1, 1>>

\* op folded over s[lo..hi] by halves (op associative, e its unit)
RECURSIVE Fold(_, _, _, _, _)
Fold(op(_, _), e, s, lo, hi) ==
    IF lo > hi THEN e
    ELSE IF lo = hi THEN s[lo]
    ELSE LET m == (lo + hi) \div 2
         IN  op(Fold(op, e, s, lo, m), Fold(op, e, s, m + 1, hi))

SumSeq(s) == Fold(LAMBDA a, b : a + b, 0, s, 1, Len(s))
LcmSeq(s) == Fold(LCM, 1, s, 1, Len(s))
GcdSeq(s) == Fold(GCD, 0, s, 1, Len(s))

\* The subsequence of s at the positions where keep holds, in order.
SelectIdx(s, keep(_)) ==
    LET idx == SelectSeq([i \in 1..Len(s) |-> i], keep)
    IN  [n \in 1..Len(idx) |-> s[idx[n]]]

\* ------------------------------------------------------------- cells
\* NaN / NaT
NaN == [nan |-> TRUE, num |-> 0, den |-> 1, rad |-> One]

\* The real (n/d)/sqrt(rad)
Cell(n, d, rad) ==
    LET r == Rat(n, d) IN [nan |-> FALSE, num |-> r[1], den |-> r[2], rad |-> rad]

Num(n) == Cell(n, 1, One)

NotNan(xs) == SelectSeq(xs, LAMBDA c : ~c.nan)

\* Integers a_i over one denominator D with xs[i] = (a_i / D)/sqrt(rad),
\* for a sequence of non-NaN cells that share rad.
CommonDen(xs) == LcmSeq([i \in 1..Len(xs) |-> xs[i].den])
Scaled(xs) == LET D == CommonDen(xs)
              IN  [i \in 1..Len(xs) |-> xs[i].num * (D \div xs[i].den)]
RadOf(xs) == IF xs = <<>> THEN One ELSE xs[1].rad

\* Series.mean(): the mean of the non-missing values, NaN when there is none.
Mean(col) ==
    LET xs == NotNan(col)
        k == Len(xs)
    IN  IF k = 0 THEN NaN
        ELSE Cell(SumSeq(Scaled(xs)), k * CommonDen(xs), RadOf(xs))

\* k*a_i - sum(a): the deviations from the mean, times k
Devs(a) == LET k == Len(a)
               S == SumSeq(a)
           IN  [i \in 1..k |-> k * a[i] - S]

SumSq(d) == SumSeq([i \in 1..Len(d) |-> d[i] * d[i]])

\* The sample variance (ddof = 1) of the non-missing values as a rational
\* over rad; <<0, 0>> stands for NaN (fewer than two values).
Var(col) ==
    LET xs == NotNan(col)
        k == Len(xs)
        D == CommonDen(xs)
        d == Devs(Scaled(xs))
        g == GcdSeq(d)
        e == [i \in 1..k |-> d[i] \div g]
    IN  IF k < 2 THEN <<0, 0>>
        ELSE IF g = 0 THEN <<0, 1>>
        ELSE LET a == Rat(SumSq(e), k - 1)
                 b == Rat(g, k * D)
                 p == Rat(a[1], b[2])
                 q == Rat(b[1], a[2])
             IN  \* a * b * b, reduced before each product
                 LET r1 == Rat(p[1] * q[1], p[2] * q[2])
                     u == Rat(r1[1], b[2])
                     v == Rat(b[1], r1[2])
                 IN  Rat(u[1] * v[1], u[2] * v[2])

\* Series.std(): sqrt(Var)/sqrt(rad), NaN with fewer than two values.
Std(col) ==
    LET v == Var(col)
        r == RadOf(NotNan(col))
    IN  IF v[2] = 0 THEN NaN
        ELSE IF v[1] = 0 THEN Num(0)
        ELSE Cell(1, 1, Rat(r[1] * v[2], r[2] * v[1]))

\* ------------------------------------------------------------- calendar
IsLeap(y) == (y % 4 = 0 /\ y % 100 # 0) \/ y % 400 = 0

DaysInYear(y) == IF IsLeap(y) THEN 366 ELSE 365

DaysInMonth(y, m) ==
    IF m = 2 THEN (IF IsLeap(y) THEN 29 ELSE 28)
    ELSE IF m \in {4, 6, 9, 11} THEN 30 ELSE 31

\* Day number of <y>-01-01, day 0 being 2000-01-01.
YearStart(y) == SumSeq([i \in 1..(y - 2000) |-> DaysInYear(1999 + i)])

\* Day number of the last day of the k-th month counted from 2000-01 (k >= 1).
MonthEnd(k) ==
    LET y == 2000 + ((k - 1) \div 12)
        m == ((k - 1) % 12) + 1
    IN  YearStart(y) + SumSeq([i \in 1..m |-> DaysInMonth(y, i)]) - 1

\* Timestamp.date(): the calendar day of a timestamp.
DateOf(t) == t \div TicksPerDay

\* pd.to_datetime(date): midnight of a calendar day.
Midnight(d) == d * TicksPerDay

\* ------------------------------------------------------------- data frames
\* A frame is [cols, rows]: the column names in order, and the rows, each a
\* sequence of cells in column order.  A date cell is [nat, t].
NaT == [nat |-> TRUE, t |-> 0]
Ts(t) == [nat |-> FALSE, t |-> t]

HasCol(df, name) == \E j \in 1..Len(df.cols) : df.cols[j] = name
ColIdx(df, name) == CHOOSE j \in 1..Len(df.cols) : df.cols[j] = name
ColCount(df, name) == Cardinality({j \in 1..Len(df.cols) : df.cols[j] = name})

\* df[name] as a sequence of cells
Col(df, name) == [i \in 1..Len(df.rows) |-> df.rows[i][ColIdx(df, name)]]

\* df[name] = cells (the column replaced, or appended when new)
SetCol(df, name, cells) ==
    IF HasCol(df, name)
    THEN [df EXCEPT !.rows = [i \in 1..Len(df.rows) |->
              [df.rows[i] EXCEPT ![ColIdx(df, name)] = cells[i]]]]
    ELSE [cols |-> Append(df.cols, name),
          rows |-> [i \in 1..Len(df.rows) |-> Append(df.rows[i], cells[i])]]

NoFrame == [cols |-> <<>>, rows |-> <<>>]

\* Series.min() / Series.max() of a date column: NaT for an empty column.
MinT(ds) == Fold(LAMBDA a, b : IF a < b THEN a ELSE b, 0,
                 [i \in 1..Len(ds) |-> ds[i].t], 1, Len(ds))
MaxT(ds) == Fold(LAMBDA a, b : IF a > b THEN a ELSE b, 0,
                 [i \in 1..Len(ds) |-> ds[i].t], 1, Len(ds))
DateMin(df) == IF df.rows = <<>> THEN NaT ELSE Ts(MinT(Col(df, "date")))
DateMax(df) == IF df.rows = <<>> THEN NaT ELSE Ts(MaxT(Col(df, "date")))

\* df[(df["date"] >= start) & (df["date"] <= end)]: the boolean mask keeps
\* the rows in order; start and end are timestamps.
FilterDates(df, start, end) ==
    LET d == Col(df, "date")
    IN  [df EXCEPT !.rows =
            SelectIdx(df.rows, LAMBDA i : d[i].t >= start /\ d[i].t <= end)]

\* ------------------------------------------------------------- display
\* n/d (d > 0) rounded to an integer, ties to even, as Python's format does.
RoundHalfEven(n, d) ==
    LET f == n \div d
        r == n - f * d
    IN  IF 2 * r < d THEN f
        ELSE IF 2 * r > d THEN f + 1
        ELSE IF f % 2 = 0 THEN f ELSE f + 1

\* f"{x:.<k>f}": the text of a metric.  units is the number of display units
\* (10^-k of the displayed quantity) in one model unit.  A value with a
\* square root in it has no finite decimal form here and is carried as it is.
Fmt(c, units) ==
    IF c.nan THEN [text |-> "nan", q |-> 0, of |-> NaN]
    ELSE IF c.rad = One \/ c.num = 0
         THEN [text |-> "fixed", q |-> RoundHalfEven(c.num * units, c.den), of |-> NaN]
         ELSE [text |-> "irrational", q |-> 0, of |-> c]

\* ------------------------------------------------------------- load_noaa_data
SamplePeriods == 240

\* pd.Timestamp.today() at the time of loading: some instant of 2026-01-01.
Today == Midnight(YearStart(2026)) + 1

\* np.sin(np.linspace(0, 20, 240)) + np.random.normal(0, 0.2, 240), in tenths:
\* the noise is unseeded, so the series is arbitrary; the model draws it from
\* NoiseSeeds series of small integers.
SampleValue(seed, k) == ((k * seed) % 5) - 2

\* line 34, pd.date_range("2000-01-01", periods=240, freq="M"): the month
\* ends from 2000-01-31 on, at midnight
SampleDates == [k \in 1..SamplePeriods |-> Ts(Midnight(MonthEnd(k)))]

\* lines 34-36: the dates with the generated values
SampleFrame(seed) ==
    [cols |-> <<"date", "value">>,
     rows |-> [k \in 1..SamplePeriods |->
                 <<SampleDates[k], Num(SampleValue(seed, k))>>]]

\* A fetched CSV is a frame whose date cells are still text: [ok, t] is text
\* that parses to the timestamp t (ok) or does not parse.
\* pd.to_datetime(..., errors="coerce")
ToDatetimeCoerce(raw) == IF raw.ok THEN Ts(raw.t) ELSE NaT

\* df.rename(columns={"anomaly": "value"})
RenameAnomaly(cols) ==
    [j \in 1..Len(cols) |-> IF cols[j] = "anomaly" THEN "value" ELSE cols[j]]

\* df[["date", "value"]]: every column that carries one of the two names,
\* the date column(s) first.
SelectDateValue(df) ==
    LET idx == SelectSeq([j \in 1..Len(df.cols) |-> j], LAMBDA j : df.cols[j] = "date")
               \o SelectSeq([j \in 1..Len(df.cols) |-> j], LAMBDA j : df.cols[j] = "value")
    IN  [cols |-> [n \in 1..Len(idx) |-> df.cols[idx[n]]],
         rows |-> [i \in 1..Len(df.rows) |->
                     [n \in 1..Len(idx) |-> df.rows[i][idx[n]]]]]

\* lines 27-32, the body of the try: [exc, df], exc the exception it raises
TryFetch(net, csv) ==
    IF ~net THEN [exc |-> "URLError", df |-> NoFrame]
    ELSE IF ~HasCol(csv, "date") THEN [exc |-> "KeyError", df |-> NoFrame]
    ELSE LET j == ColIdx(csv, "date")
             parsed == [csv EXCEPT !.rows = [i \in 1..Len(csv.rows) |->
                          [csv.rows[i] EXCEPT ![j] = ToDatetimeCoerce(csv.rows[i][j])]]]
             dropped == [parsed EXCEPT !.rows =
                          SelectSeq(parsed.rows, LAMBDA r : ~r[j].nat)]
             past == [dropped EXCEPT !.rows =
                          SelectSeq(dropped.rows, LAMBDA r : r[j].t <= Today)]
             renamed == [past EXCEPT !.cols = RenameAnomaly(past.cols)]
         IN  IF ~HasCol(renamed, "value") THEN [exc |-> "KeyError", df |-> NoFrame]
             ELSE [exc |-> "none", df |-> SelectDateValue(renamed)]

\* except urllib.error.URLError in place of except Exception
CaughtOnlyNetwork(exc) == exc = "URLError"

\* line 33, except Exception: every exception of the body is caught
Caught(exc) == exc # "none"

\* lines 24-37: [df, success, caught, exc]; caught is the exception handled
\* inside, exc the exception that leaves the function
LoadNoaaData(net, csv, seed) ==
    LET body == TryFetch(net, csv)
    IN  IF body.exc = "none"
        THEN [df |-> body.df, success |-> TRUE, caught |-> "none", exc |-> "none"]
        ELSE IF Caught(body.exc)
        THEN [df |-> SampleFrame(seed), success |-> FALSE,
              caught |-> body.exc, exc |-> "none"]
        ELSE [df |-> NoFrame, success |-> FALSE, caught |-> "none", exc |-> body.exc]

\* ------------------------------------------------------------- load_user_data
\* lines 41-44 with seed 42: 22 + 0.05*(year-2000) + N(0, 0.3) in tenths of a
\* degree, and 500 - (temp-22)*5 + N(0, 5) in points, rounded.
UserTemps ==
    <<221, 220, 223, 226, 221, 222, 228, 226, 223, 226, 224,
      224, 227, 221, 222, 226, 225, 229, 226, 225, 234>>
UserScores ==
    <<498, 500, 491, 494, 500, 493, 498, 494, 497, 494, 507,
      498, 491, 504, 493, 498, 488, 489, 498, 501, 494>>

\* lines 45-50: one row per year 2000..2020, dated <year>-01-01
LoadUserData ==
    [cols |-> <<"date", "summer_avg_temp_C", "math_score">>,
     rows |-> [i \in 1..Len(UserTemps) |->
                 <<Ts(Midnight(YearStart(1999 + i))),
                   Num(UserTemps[i]), Num(UserScores[i])>>]]

\* ------------------------------------------------------------- tab 2 transformations
\* rolling(w, min_periods=1) in place of rolling(w)
RollingMinPeriods1(col, w) ==
    [i \in 1..Len(col) |->
        LET win == SubSeq(col, IF i < w THEN 1 ELSE i - w + 1, i)
        IN  Mean(win)]

\* Series.rolling(w).mean(): min_periods defaults to w, so a window that is
\* not full, or that holds a missing value, gives NaN.
Rolling(col, w) ==
    [i \in 1..Len(col) |->
        IF i < w THEN NaN
        ELSE LET win == SubSeq(col, i - w + 1, i)
             IN  IF Len(NotNan(win)) < w THEN NaN ELSE Mean(win)]

\* std(ddof=0) in place of the sample deviation
ZScorePopulation(col) ==
    LET xs == NotNan(col)
        k == Len(xs)
        D == CommonDen(xs)
        pos == SelectSeq([i \in 1..Len(col) |-> i], LAMBDA i : ~col[i].nan)
        d == Devs(Scaled(xs))
        v == Var(col)
        at(i) == CHOOSE n \in 1..k : pos[n] = i
    IN  [i \in 1..Len(col) |->
            IF col[i].nan \/ v[2] = 0 \/ v[1] = 0 THEN NaN
            ELSE Cell(d[at(i)], k * D, Rat(v[1] * (k - 1), v[2] * k))]

\* (s - s.mean()) / s.std(): NaN stays NaN; a NaN or zero deviation makes
\* every value NaN (0/0).
ZScore(col) ==
    LET xs == NotNan(col)
        k == Len(xs)
        D == CommonDen(xs)
        pos == SelectSeq([i \in 1..Len(col) |-> i], LAMBDA i : ~col[i].nan)
        d == Devs(Scaled(xs))
        v == Var(col)
        at(i) == CHOOSE n \in 1..k : pos[n] = i
    IN  [i \in 1..Len(col) |->
            IF col[i].nan \/ v[2] = 0 \/ v[1] = 0 THEN NaN
            ELSE Cell(d[at(i)], k * D, v)]

\* df_vis = df_vis.rolling(w).mean() in place of the math_score column alone
SmoothEveryColumn(df, w) ==
    IF w > 0
    THEN SetCol(SetCol(df, "math_score", Rolling(Col(df, "math_score"), w)),
                "summer_avg_temp_C", Rolling(Col(df, "summer_avg_temp_C"), w))
    ELSE df

\* lines 119-120
Smooth(df, w) ==
    IF w > 0 THEN SetCol(df, "math_score", Rolling(Col(df, "math_score"), w)) ELSE df

\* lines 121-122
Standardize(df, on) ==
    IF on THEN SetCol(df, "math_score", ZScore(Col(df, "math_score"))) ELSE df

\* ------------------------------------------------------------- polyfit, corr
RMul(a, b) ==
    LET p == Rat(a[1], b[2])
        q == Rat(b[1], a[2])
    IN  <<p[1] * q[1], p[2] * q[2]>>

RAdd(a, b) ==
    LET L == LCM(a[2], b[2])
    IN  Rat(a[1] * (L \div a[2]) + b[1] * (L \div b[2]), L)

RNeg(a) == <<-a[1], a[2]>>

Reduced(d) == LET g == GcdSeq(d) IN
              IF g = 0 THEN d ELSE [i \in 1..Len(d) |-> d[i] \div g]

Dot(a, b) == SumSeq([i \in 1..Len(a) |-> a[i] * b[i]])

\* np.polyfit(x, y, 1) on complete data: <<slope, intercept>> as cells over
\* the rad of y.  When every x is the same (one row included) the system is
\* rank deficient and lstsq returns the minimum-norm solution of the scaled
\* system: slope mean(y)/(2x), intercept mean(y)/2.
FitLine(x, y) ==
    LET k == Len(x)
        R == RadOf(y)
        X == Scaled(x)
        Y == Scaled(y)
        dx == Devs(X)
        dy == Devs(Y)
        gx == GcdSeq(dx)
        gy == GcdSeq(dy)
        xbar == Rat(SumSeq(X), k * CommonDen(x))
        ybar == Rat(SumSeq(Y), k * CommonDen(y))
    IN  IF gx = 0
        THEN LET sl == RMul(ybar, <<xbar[2], 2 * xbar[1]>>)
             IN  <<Cell(sl[1], sl[2], R), Cell(ybar[1], 2 * ybar[2], R)>>
        ELSE IF gy = 0
        THEN <<Cell(0, 1, R), Cell(ybar[1], ybar[2], R)>>
        ELSE LET ex == Reduced(dx)
                 ey == Reduced(dy)
                 \* slope = (Sxy/Sxx) * (Dx/Dy), devs being k*Dx*(x - xbar)
                 sl == RMul(RMul(Rat(Dot(ex, ey), SumSq(ex)), Rat(gy, gx)),
                            Rat(CommonDen(x), CommonDen(y)))
                 ic == RAdd(ybar, RNeg(RMul(sl, xbar)))
             IN  <<Cell(sl[1], sl[2], R), Cell(ic[1], ic[2], R)>>

\* np.polyfit(x, y, 1): [exc, coeffs].  An empty x is refused with a
\* TypeError.  With a NaN in the data LAPACK's least squares either fails to
\* converge (LinAlgError) or returns NaN coefficients, depending on the build:
\* svd_fails is that outcome.
Polyfit(x, y, svd_fails) ==
    IF Len(x) = 0 THEN [exc |-> "TypeError", coeffs |-> <<NaN, NaN>>]
    ELSE IF Len(NotNan(y)) < Len(y) \/ Len(NotNan(x)) < Len(x)
    THEN (IF svd_fails THEN [exc |-> "LinAlgError", coeffs |-> <<NaN, NaN>>]
                       ELSE [exc |-> "none", coeffs |-> <<NaN, NaN>>])
    ELSE [exc |-> "none", coeffs |-> FitLine(x, y)]

\* np.polyval(coeffs, x) for degree 1
Polyval(coeffs, x) ==
    [i \in 1..Len(x) |->
        IF coeffs[1].nan \/ coeffs[2].nan \/ x[i].nan THEN NaN
        ELSE LET v == RAdd(RMul(<<coeffs[1].num, coeffs[1].den>>, <<x[i].num, x[i].den>>),
                           <<coeffs[2].num, coeffs[2].den>>)
             IN  Cell(v[1], v[2], coeffs[2].rad)]

\* Series.corr(other): Pearson's r over the rows complete in both columns,
\* kept as sxy/sqrt(sxx*syy); NaN with fewer than two such rows or when a
\* column is constant.
Corr(x, y) ==
    LET both == SelectSeq([i \in 1..Len(x) |-> i], LAMBDA i : ~x[i].nan /\ ~y[i].nan)
        xs == [n \in 1..Len(both) |-> x[both[n]]]
        ys == [n \in 1..Len(both) |-> y[both[n]]]
        ex == Reduced(Devs(Scaled(xs)))
        ey == Reduced(Devs(Scaled(ys)))
        sxx == SumSq(ex)
        syy == SumSq(ey)
    IN  IF Len(both) < 2 \/ sxx = 0 \/ syy = 0
        THEN [nan |-> TRUE, sxy |-> 0, sxx |-> 1, syy |-> 1, unit |-> 0]
        ELSE [nan |-> FALSE, sxy |-> Dot(ex, ey), sxx |-> sxx, syy |-> syy,
              \* r = 1 or r = -1 exactly when the deviations are proportional
              unit |-> IF ey = ex THEN 1
                       ELSE IF ey = [i \in 1..Len(ex) |-> -ex[i]] THEN -1 ELSE 0]

\* f"{corr_value:.3f}"
FmtCorr(c) ==
    IF c.nan THEN [text |-> "nan", q |-> 0, of |-> c]
    ELSE IF c.sxy = 0 THEN [text |-> "fixed", q |-> 0, of |-> c]
    ELSE IF c.unit # 0 THEN [text |-> "fixed", q |-> c.unit * 1000, of |-> c]
    ELSE [text |-> "irrational", q |-> 0, of |-> c]

\* ------------------------------------------------------------- the script
VARIABLES
    pc,                 \* the next section of the script, "done" or "crashed"
    exc,                \* the unhandled exception that stopped the run
    cache,              \* st.cache_data entry of load_noaa_data
    csv,                \* the CSV the cached load read (NoFrame when it read none)
    caught,             \* the exception the cached load handled inside
    noaa_df, success, date_range_noaa, df_noaa_vis,
    date_range, smoothing_window, standardize, df_vis,
    ols_raised,         \* whether the try block of the scatter section raised
    corr_value,
    warned,             \* st.warning shown in this run
    errored,            \* st.error shown in this run
    metrics,            \* st.metric calls of this run, in order
    charts,             \* st.plotly_chart calls of this run, in order
    downloads,          \* st.download_button payloads of this run, in order
    sources             \* the source list was rendered

cacheVars == <<cache, csv, caught>>
tab1Vars == <<noaa_df, success, date_range_noaa, df_noaa_vis>>
tab2Vars == <<date_range, smoothing_window, standardize, df_vis, ols_raised, corr_value>>
outVars == <<warned, errored, metrics, charts, downloads, sources>>
vars == <<pc, exc, cacheVars, tab1Vars, tab2Vars, outVars>>

NoCorr == [nan |-> TRUE, sxy |-> 0, sxx |-> 1, syy |-> 1, unit |-> 0]

\* The locals and the page at the start of a run.
Fresh ==
    /\ pc = "load_noaa"
    /\ exc = "none"
    /\ noaa_df = NoFrame /\ success = FALSE
    /\ date_range_noaa = <<>> /\ df_noaa_vis = NoFrame
    /\ date_range = <<>> /\ smoothing_window = 0 /\ standardize = FALSE
    /\ df_vis = NoFrame /\ ols_raised = FALSE /\ corr_value = NoCorr
    /\ warned = FALSE /\ errored = FALSE
    /\ metrics = <<>> /\ charts = <<>> /\ downloads = <<>> /\ sources = FALSE

Init ==
    /\ Fresh
    /\ cache = [hit |-> FALSE, df |-> NoFrame, success |-> FALSE]
    /\ csv = NoFrame
    /\ caught = "none"

\* An unhandled exception ends the run where it is raised.
Crash(e) == pc' = "crashed" /\ exc' = e

\* A widget interaction (or a reload) runs the script again from the top; the
\* cache outlives the run.
Rerun ==
    /\ pc \in {"done", "crashed"}
    /\ pc' = "load_noaa"
    /\ exc' = "none"
    /\ noaa_df' = NoFrame /\ success' = FALSE
    /\ date_range_noaa' = <<>> /\ df_noaa_vis' = NoFrame
    /\ date_range' = <<>> /\ smoothing_window' = 0 /\ standardize' = FALSE
    /\ df_vis' = NoFrame /\ ols_raised' = FALSE /\ corr_value' = NoCorr
    /\ warned' = FALSE /\ errored' = FALSE
    /\ metrics' = <<>> /\ charts' = <<>> /\ downloads' = <<>> /\ sources' = FALSE
    /\ UNCHANGED cacheVars

\* ---- what the environment can answer
\* Date texts of a fetched CSV: unparseable, midnight of a day, later the same
\* day, and an instant after the time of loading.
RawDates ==
    {[ok |-> FALSE, t |-> 0],
     [ok |-> TRUE, t |-> Midnight(YearStart(2020))],
     [ok |-> TRUE, t |-> Midnight(YearStart(2020)) + 1],
     [ok |-> TRUE, t |-> Today + 1]}

Headers ==
    {<<"date", "anomaly">>, <<"date", "value">>, <<"date", "anomaly", "value">>,
     <<"anomaly">>, <<"date">>}

\* Row i of a CSV with the given header and date text: anomaly i, value 10+i.
RawRow(header, dt, i) ==
    [j \in 1..Len(header) |->
        IF header[j] = "date" THEN dt
        ELSE IF header[j] = "anomaly" THEN Num(i) ELSE Num(10 + i)]

Csvs ==
    {[cols |-> h, rows |-> [i \in 1..n |-> RawRow(h, ds[i], i)]] :
        h \in Headers, n \in 0..MaxSrcRows, ds \in [1..MaxSrcRows -> RawDates]}

\* st.date_input(..., (lo, hi), min_value=lo, max_value=hi): the days offered
\* lie in [lo, hi]; the widget returns (start,) while the user has picked only
\* the first day, and (start, end) with start <= end afterwards.
PickDays(df) ==
    LET lo == DateOf(DateMin(df).t)
        hi == DateOf(DateMax(df).t)
        near == {DateOf(Col(df, "date")[i].t) :
                    i \in {n \in 1..NearRows : n <= Len(df.rows)}}
    IN  {d \in {lo, lo + 1, hi} \cup near : lo <= d /\ d <= hi}

DateInput(df) ==
    {<<a>> : a \in PickDays(df)}
    \cup {r \in PickDays(df) \X PickDays(df) : r[1] <= r[2]}

\* ---- tab 1
\* lines 63-65: the cached result, or a load whose result is cached
LoadNoaa ==
    /\ pc = "load_noaa"
    /\ \/ /\ cache.hit
          /\ noaa_df' = cache.df /\ success' = cache.success
          /\ warned' = ~cache.success
          /\ pc' = "tab1_sidebar"
          /\ UNCHANGED <<exc, cacheVars>>
       \/ /\ ~cache.hit
          /\ \E net \in BOOLEAN, c \in Csvs, seed \in 1..NoiseSeeds :
               LET r == LoadNoaaData(net, c, seed)
               IN  IF r.exc # "none"
                   THEN /\ Crash(r.exc)
                        /\ UNCHANGED <<cacheVars, noaa_df, success, warned>>
                   ELSE /\ cache' = [hit |-> TRUE, df |-> r.df, success |-> r.success]
                        /\ csv' = IF r.success THEN c ELSE NoFrame
                        /\ caught' = r.caught
                        /\ noaa_df' = r.df /\ success' = r.success
                        /\ warned' = ~r.success
                        /\ pc' = "tab1_sidebar"
                        /\ exc' = exc
    /\ UNCHANGED <<date_range_noaa, df_noaa_vis, tab2Vars,
                   errored, metrics, charts, downloads, sources>>

\* lines 70-73: NaT.date() raises ValueError when the frame has no row
Tab1Sidebar ==
    /\ pc = "tab1_sidebar"
    /\ IF DateMin(noaa_df).nat
       THEN Crash("ValueError") /\ UNCHANGED date_range_noaa
       ELSE /\ date_range_noaa' \in DateInput(noaa_df)
            /\ pc' = "tab1_filter" /\ exc' = exc
    /\ UNCHANGED <<cacheVars, noaa_df, success, df_noaa_vis, tab2Vars, outVars>>

\* lines 75-76: date_range_noaa[1] raises IndexError on a one-element tuple
Tab1Filter ==
    /\ pc = "tab1_filter"
    /\ IF Len(date_range_noaa) < 2
       THEN Crash("IndexError") /\ UNCHANGED df_noaa_vis
       ELSE /\ df_noaa_vis' = FilterDates(noaa_df, Midnight(date_range_noaa[1]),
                                          Midnight(date_range_noaa[2]))
            /\ pc' = "tab1_render" /\ exc' = exc
    /\ UNCHANGED <<cacheVars, noaa_df, success, date_range_noaa, tab2Vars, outVars>>

\* lines 79-97: metrics, the two line charts (the second of the 12-month
\* rolling mean, added to the view as MA12) and the download.  With two
\* columns named value, df['value'].mean() is a Series and formatting it
\* raises TypeError.
Tab1Render ==
    /\ pc = "tab1_render"
    /\ IF ColCount(df_noaa_vis, "value") # 1
       THEN /\ Crash("TypeError")
            /\ UNCHANGED <<df_noaa_vis, metrics, charts, downloads>>
       ELSE LET v == Col(df_noaa_vis, "value")
                ma == SetCol(df_noaa_vis, "MA12", Rolling(v, 12))
            IN  /\ metrics' = metrics \o
                       << <<"noaa_mean", Fmt(Mean(v), 100)>>,
                          <<"noaa_std", Fmt(Std(v), 100)>> >>
                /\ charts' = charts \o
                       << [name |-> "fig_noaa", data |-> df_noaa_vis, y |-> "value",
                           line |-> "none", fit |-> <<>>],
                          [name |-> "fig_noaa_ma", data |-> ma, y |-> "MA12",
                           line |-> "none", fit |-> <<>>] >>
                /\ df_noaa_vis' = ma
                /\ downloads' = Append(downloads, ma)
                /\ pc' = "tab2_sidebar" /\ exc' = exc
    /\ UNCHANGED <<cacheVars, noaa_df, success, date_range_noaa, tab2Vars,
                   warned, errored, sources>>

\* ---- tab 2
\* lines 104-114: the three sidebar widgets
Tab2Sidebar ==
    /\ pc = "tab2_sidebar"
    /\ date_range' \in DateInput(LoadUserData)
    /\ smoothing_window' \in 0..5
    /\ standardize' \in BOOLEAN
    /\ pc' = "tab2_filter"
    /\ UNCHANGED <<exc, cacheVars, tab1Vars, df_vis, ols_raised, corr_value, outVars>>

\* lines 116-117
Tab2Filter ==
    /\ pc = "tab2_filter"
    /\ IF Len(date_range) < 2
       THEN Crash("IndexError") /\ UNCHANGED df_vis
       ELSE /\ df_vis' = FilterDates(LoadUserData, Midnight(date_range[1]),
                                     Midnight(date_range[2]))
            /\ pc' = "tab2_smooth" /\ exc' = exc
    /\ UNCHANGED <<cacheVars, tab1Vars, date_range, smoothing_window, standardize,
                   ols_raised, corr_value, outVars>>

\* lines 119-120
Tab2Smooth ==
    /\ pc = "tab2_smooth"
    /\ df_vis' = Smooth(df_vis, smoothing_window)
    /\ pc' = "tab2_standardize"
    /\ UNCHANGED <<exc, cacheVars, tab1Vars, date_range, smoothing_window, standardize,
                   ols_raised, corr_value, outVars>>

\* lines 121-122
Tab2Standardize ==
    /\ pc = "tab2_standardize"
    /\ df_vis' = Standardize(df_vis, standardize)
    /\ pc' = "tab2_metrics"
    /\ UNCHANGED <<exc, cacheVars, tab1Vars, date_range, smoothing_window, standardize,
                   ols_raised, corr_value, outVars>>

\* lines 125-133: the two metrics and the time-series chart
Tab2Metrics ==
    /\ pc = "tab2_metrics"
    /\ metrics' = metrics \o
           << <<"temp_mean", Fmt(Mean(Col(df_vis, "summer_avg_temp_C")), 10)>>,
              <<"score_mean", Fmt(Mean(Col(df_vis, "math_score")), 100)>> >>
    /\ charts' = Append(charts,
           [name |-> "fig3", data |-> df_vis, y |-> "math_score",
            line |-> "none", fit |-> <<>>])
    /\ pc' = "tab2_scatter"
    /\ UNCHANGED <<exc, cacheVars, tab1Vars, tab2Vars,
                   warned, errored, downloads, sources>>

\* lines 137-150: the try block (px.scatter with an OLS trend line, then
\* st.plotly_chart) either renders the chart or raises; except Exception then
\* shows the error, fits with np.polyfit and renders fig4.  What polyfit
\* raises is not handled.
Tab2Scatter ==
    /\ pc = "tab2_scatter"
    /\ \E raises \in BOOLEAN, svd_fails \in BOOLEAN :
         /\ ols_raised' = raises
         /\ IF ~raises
            THEN /\ charts' = Append(charts,
                       [name |-> "scatter_trend", data |-> df_vis, y |-> "math_score",
                        line |-> "ols", fit |-> <<>>])
                 /\ pc' = "tab2_corr"
                 /\ UNCHANGED <<exc, errored>>
            ELSE LET x == Col(df_vis, "summer_avg_temp_C")
                     pf == Polyfit(x, Col(df_vis, "math_score"), svd_fails)
                 IN  /\ errored' = TRUE
                     /\ IF pf.exc # "none"
                        THEN Crash(pf.exc) /\ UNCHANGED charts
                        ELSE /\ charts' = Append(charts,
                                   [name |-> "fig4", data |-> df_vis, y |-> "math_score",
                                    line |-> "polyfit", fit |-> Polyval(pf.coeffs, x)])
                             /\ pc' = "tab2_corr" /\ exc' = exc
    /\ UNCHANGED <<cacheVars, tab1Vars, date_range, smoothing_window, standardize,
                   df_vis, corr_value, warned, metrics, downloads, sources>>

\* lines 153-158: the correlation metric and the download
Tab2Corr ==
    /\ pc = "tab2_corr"
    /\ corr_value' = Corr(Col(df_vis, "summer_avg_temp_C"), Col(df_vis, "math_score"))
    /\ metrics' = Append(metrics, <<"corr", FmtCorr(corr_value')>>)
    /\ downloads' = Append(downloads, df_vis)
    /\ pc' = "sources"
    /\ UNCHANGED <<exc, cacheVars, tab1Vars, date_range, smoothing_window, standardize,
                   df_vis, ols_raised, warned, errored, charts, sources>>

\* lines 161-165
Sources ==
    /\ pc = "sources"
    /\ sources' = TRUE
    /\ pc' = "done"
    /\ UNCHANGED <<exc, cacheVars, tab1Vars, tab2Vars,
                   warned, errored, metrics, charts, downloads>>

Next ==
    \/ Rerun
    \/ LoadNoaa
    \/ Tab1Sidebar
    \/ Tab1Filter
    \/ Tab1Render
    \/ Tab2Sidebar
    \/ Tab2Filter
    \/ Tab2Smooth
    \/ Tab2Standardize
    \/ Tab2Metrics
    \/ Tab2Scatter
    \/ Tab2Corr
    \/ Sources

Spec == Init /\ [][Next]_vars

\* ------------------------------------------------------------- properties
HasChart(n) == \E i \in 1..Len(charts) : charts[i].name = n
ChartsNamed(names) == SelectSeq(charts, LAMBDA c : c.name \in names)
MetricOf(label) ==
    metrics[CHOOSE i \in 1..Len(metrics) : metrics[i][1] = label]
HasMetric(label) == \E i \in 1..Len(metrics) : metrics[i][1] = label

\* The scatter section has run in this run (to its end or to an exception).
ScatterRan == HasChart("fig3") /\ pc # "tab2_scatter"

\* The user-data rows selected by the date range of this run.
Filtered == FilterDates(LoadUserData, Midnight(date_range[1]), Midnight(date_range[2]))

\* C1: once the scatter section has run, exactly one scatter chart is shown:
\* the OLS chart and no error message when the try block did not raise, the
\* error message and the polyfit chart when it did, whatever the view.
C1_OneScatterChart ==
    ScatterRan =>
        LET sc == ChartsNamed({"scatter_trend", "fig4"})
        IN  /\ Len(sc) = 1
            /\ ~ols_raised => (sc[1].line = "ols" /\ ~errored)
            /\ ols_raised => (sc[1].line = "polyfit" /\ errored)

\* C2: load_noaa_data lets no exception out (a run can only stop after the
\* load has returned); when the CSV could not be read or parsed it returns a
\* generated 240-row sample with the flag False, otherwise the fetched data
\* with the flag True; the warning is shown exactly when the data of the run
\* is the sample.
IsSample(df) ==
    /\ df.cols = <<"date", "value">>
    /\ Len(df.rows) = 240
    /\ Col(df, "date") = SampleDates

C2_LoadFallsBackToSample ==
    /\ pc = "crashed" => cache.hit
    /\ pc \notin {"load_noaa", "crashed"} \/ (pc = "crashed" /\ cache.hit) =>
        /\ caught # "none" => (~success /\ IsSample(noaa_df) /\ csv = NoFrame)
        /\ caught = "none" => (success /\ ~IsSample(noaa_df) /\ HasCol(csv, "date"))
        /\ warned <=> IsSample(noaa_df)

C2_Witness ==
    pc = "tab1_sidebar" /\ caught = "KeyError" /\ warned /\ Len(noaa_df.rows) = 240

\* C3: in both tabs the view holds exactly the rows dated within the selected
\* range, ends included, in order, and the default selection (min date, max
\* date) shows the whole loaded dataset.
ExactView(df, rng, view) ==
    /\ view.rows = SelectSeq(df.rows,
          LAMBDA r : /\ r[ColIdx(df, "date")].t >= Midnight(rng[1])
                     /\ r[ColIdx(df, "date")].t <= Midnight(rng[2]))
    /\ rng = <<DateOf(DateMin(df).t), DateOf(DateMax(df).t)>> => view = df

C3_DateFilterInclusive ==
    /\ pc = "tab1_render" => ExactView(noaa_df, date_range_noaa, df_noaa_vis)
    /\ pc = "tab2_smooth" => ExactView(LoadUserData, date_range, df_vis)

\* C4: after smoothing, with window 0 the scores are the filtered ones; with
\* window w >= 1 score i is the mean of the filtered scores i-w+1..i for
\* i >= w and missing for the first w-1 rows.
WindowMean(scores, i, w) ==
    Cell(SumSeq([n \in 1..w |-> scores[i - w + n].num]), w, One)

C4_SmoothingFollowsSlider ==
    pc = "tab2_standardize" =>
        LET scores == Col(Filtered, "math_score")
            got == Col(df_vis, "math_score")
            w == smoothing_window
        IN  /\ Len(got) = Len(scores)
            /\ w = 0 => got = scores
            /\ w = 1 => got = scores
            /\ w >= 1 => \A i \in 1..Len(got) :
                   IF i >= w THEN got[i] = WindowMean(scores, i, w) ELSE got[i].nan
            /\ (w >= 1 /\ Len(got) < w) => \A i \in 1..Len(got) : got[i].nan

C4_Witness ==
    /\ pc = "tab2_standardize" /\ smoothing_window = 3
    /\ Len(df_vis.rows) = 21
    /\ Col(df_vis, "math_score")[2].nan
    /\ Col(df_vis, "math_score")[3] = Cell(498 + 500 + 491, 3, One)

\* C5: with the checkbox set the scores are the Z-scores of the smoothed
\* scores, (x - mean)/sample deviation over the non-missing ones, so that with
\* at least two distinct non-missing scores their mean is 0, their sample
\* deviation is 1 and the displayed average score is 0; with the checkbox
\* clear the scores are as smoothing left them.
Smoothed == Col(Smooth(Filtered, smoothing_window), "math_score")
TwoDistinct(col) == \E i, j \in 1..Len(col) : ~col[i].nan /\ ~col[j].nan /\ col[i] # col[j]

\* sum of squares of the real values of non-NaN cells sharing rad, as a rational
SquareSum(xs) ==
    LET a == Rat(SumSq(Scaled(xs)), CommonDen(xs) * CommonDen(xs))
        r == RadOf(xs)
    IN  RMul(a, <<r[2], r[1]>>)

C5_StandardizeIsZScore ==
    pc \in {"tab2_metrics", "tab2_scatter", "tab2_corr", "sources", "done"} =>
        LET got == Col(df_vis, "math_score")
            sm == Smoothed
            zs == NotNan(got)
            m == Mean(sm)
        IN  /\ ~standardize => got = sm
            /\ (standardize /\ TwoDistinct(sm)) =>
                /\ \A i \in 1..Len(got) :
                      /\ got[i].nan <=> sm[i].nan
                      /\ ~got[i].nan =>
                            <<got[i].num, got[i].den>> =
                               RAdd(<<sm[i].num, sm[i].den>>, <<-m.num, m.den>>)
                \* mean 0 and sample deviation 1
                /\ SumSeq(Scaled(zs)) = 0
                /\ SquareSum(zs) = <<Len(zs) - 1, 1>>
                /\ pc # "tab2_metrics" =>
                      /\ MetricOf("score_mean")[2].text = "fixed"
                      /\ MetricOf("score_mean")[2].q = 0

C5_Witness ==
    /\ pc = "done" /\ standardize /\ smoothing_window = 2
    /\ Len(df_vis.rows) = 21
    /\ TwoDistinct(Smoothed)
    /\ Col(df_vis, "math_score")[1].nan /\ ~Col(df_vis, "math_score")[2].nan
    /\ MetricOf("score_mean")[2].q = 0

\* C6: a successful load returns exactly the columns date and value, value
\* being the anomaly column of the source, with the rows of the source whose
\* date parsed and is not after the time of loading, in source order.
C6_SuccessfulLoadShape ==
    (success /\ pc # "load_noaa") =>
        /\ HasCol(csv, "anomaly")
        /\ noaa_df.cols = <<"date", "value">>
        /\ LET d == ColIdx(csv, "date")
               a == ColIdx(csv, "anomaly")
               kept == SelectSeq(csv.rows, LAMBDA r : r[d].ok /\ r[d].t <= Today)
           IN  noaa_df.rows = [i \in 1..Len(kept) |-> <<Ts(kept[i][d].t), kept[i][a]>>]

\* C7: smoothing and standardization leave the rows, the dates and the
\* temperatures of the view as filtering produced them, so the average
\* temperature shown is that of the selected date range; the charts, the
\* correlation and the CSV of a run are all made from the one transformed view.
SameBut(df, ref) ==
    /\ df.cols = ref.cols
    /\ Len(df.rows) = Len(ref.rows)
    /\ Col(df, "date") = Col(ref, "date")
    /\ Col(df, "summer_avg_temp_C") = Col(ref, "summer_avg_temp_C")

C7_OnlyMathScoreChanges ==
    /\ pc \in {"tab2_standardize", "tab2_metrics", "tab2_scatter", "tab2_corr",
               "sources", "done"} =>
          LET f == Filtered
          IN  /\ SameBut(df_vis, f)
              /\ HasMetric("temp_mean") =>
                    MetricOf("temp_mean")[2] = Fmt(Mean(Col(f, "summer_avg_temp_C")), 10)
    /\ pc = "done" =>
          /\ \A c \in {"fig3", "scatter_trend", "fig4"} :
                \A i \in 1..Len(charts) : charts[i].name = c => charts[i].data = df_vis
          /\ downloads[Len(downloads)] = df_vis
          /\ corr_value = Corr(Col(df_vis, "summer_avg_temp_C"), Col(df_vis, "math_score"))
          /\ Len(ChartsNamed({"fig3"})) = 1
          /\ Len(ChartsNamed({"scatter_trend", "fig4"})) = 1

C7_Witness ==
    /\ pc = "done" /\ standardize /\ smoothing_window = 5
    /\ Len(df_vis.rows) = 21
    /\ Col(df_vis, "math_score") # Col(Filtered, "math_score")
    /\ HasChart("fig4")

\* C8: no run is stopped by an unhandled exception, whatever the date inputs
\* deliver.
C8_EveryRunReachesTheEnd == pc # "crashed"

====
